---- MODULE Spec2Model ----
(***************************************************************************)
(* Model of the mp4-to-mp3 converter: folder_logic.py (collapse_sub_folders,*)
(* get_most_recent_recording, get_all_recordings_for_today,                *)
(* file_was_created_today) and main.py (convert_mp4_to_mp3,                *)
(* convert_most_recent_mp4, convert_all_mp4s_for_today, main).             *)
(*                                                                         *)
(* Strings are sequences of one-character strings, so that endswith,       *)
(* dirname, join and replace are computed character by character.  A path  *)
(* below FOLDER_PATH is the sequence of the entry names leading to it      *)
(* (os.path.join(path, item) appends one name).                            *)
(***************************************************************************)
EXTENDS Integers, Sequences, FiniteSets

VARIABLES
    fs,          \* the tree under FOLDER_PATH: a set of nodes [path, kind, mtime]
    fs0,         \* the tree as it was before the first collapse (history)
    stack,       \* the frames of collapse_sub_folders, innermost last
    cstate,      \* "idle", "running", "done" (returned) or "failed" (OSError raised)
    runs,        \* number of top-level calls of collapse_sub_folders so far
    fsF,         \* the tree as the last failed collapse left it (history)
    pc,          \* main's position: "input", "collapse", "convert", "done", "aborted"
    user_input,  \* the last line read from the menu prompt
    rejects,     \* number of rejected menu inputs so far
    clock,       \* the wall clock, in seconds since the epoch (UTC)
    tz,          \* the local time zone's offset from UTC, in seconds
    dest,        \* DESTINATION_PATH, a string
    listing,     \* what os.listdir(FOLDER_PATH) returned to the selector
    selection,   \* what the selector returned
    todo,        \* the paths convert_mp4_to_mp3 is still to be called with
    calls        \* the calls of convert_mp4_to_mp3 so far (history)

collapseVars == <<fs, fs0, stack, cstate, runs, fsF>>

mainVars == <<pc, user_input, rejects, clock, tz, dest, listing, selection, todo, calls>>

vars == <<fs, fs0, stack, cstate, runs, fsF, pc, user_input, rejects, clock, tz, dest,
          listing, selection, todo, calls>>

\* ------------------------------------------------------------------ bounds
MaxNodes == 4

\* ------------------------------------------------------------------ names
MP4 == <<".", "m", "p", "4">>

NameA == <<"A">>

NameX == <<"x">> \o MP4

NameY == <<"y">> \o MP4

TreeNames == {NameA, NameX, NameY}

Last(s) == s[Len(s)]

Front(s) == SubSeq(s, 1, Len(s) - 1)

IsPrefix(p, q) == Len(p) <= Len(q) /\ SubSeq(q, 1, Len(p)) = p

\* All orders in which a directory listing can return the set S of names.
Perms(S) ==
    {s \in [1..Cardinality(S) -> S] : \A i, j \in 1..Cardinality(S) : s[i] = s[j] => i = j}

\* ------------------------------------------------------------- file system
Exists(tree, p) == \E n \in tree : n.path = p

NodeAt(tree, p) == CHOOSE n \in tree : n.path = p

\* os.path.isdir: False for a path that does not exist.
IsDir(tree, p) == \E n \in tree : n.path = p /\ n.kind = "dir"

\* os.listdir(p), as a set: the names of p's direct entries.
Entries(tree, p) ==
    {Last(n.path) : n \in {m \in tree : Len(m.path) = Len(p) + 1 /\ IsPrefix(p, m.path)}}

\* os.path.join(path, item)
Join(path, item) == Append(path, item)

\* os.rename(src, dst) with dst absent, or dst a file that src (a file) replaces:
\* src and everything below it is re-rooted at dst.
Rename(tree, src, dst) ==
    {n \in tree : ~IsPrefix(src, n.path) /\ n.path # dst}
        \cup {[n EXCEPT !.path = dst \o SubSeq(n.path, Len(src) + 1, Len(n.path))] :
                 n \in {m \in tree : IsPrefix(src, m.path)}}

\* What a file-system call leaves: the tree, and whether it raised OSError.
Ok(tree) == [raised |-> FALSE, tree |-> tree]

Raised(tree) == [raised |-> TRUE, tree |-> tree]

\* shutil.move(src, dst):
\*   dst an existing directory: src goes inside it, unless that name is taken;
\*   dst an existing file: a file src replaces it, a directory src raises;
\*   dst absent: plain rename.
ShutilMove(tree, src, dst) ==
    IF ~Exists(tree, src) THEN Raised(tree)
    ELSE IF IsDir(tree, dst)
         THEN LET real_dst == Join(dst, Last(src))
              IN IF Exists(tree, real_dst) THEN Raised(tree)
                 ELSE Ok(Rename(tree, src, real_dst))
         ELSE IF Exists(tree, dst) /\ IsDir(tree, src) THEN Raised(tree)
              ELSE Ok(Rename(tree, src, dst))

\* os.rmdir(p): raises unless p is an empty directory.
RmDir(tree, p) ==
    IF IsDir(tree, p) /\ Entries(tree, p) = {}
    THEN Ok({n \in tree : n.path # p})
    ELSE Raised(tree)

\* -------------------------------------------------------- initial trees
\* Every tree below `prefix` that uses the names `names` at its top level and
\* has at most `budget` nodes; files take their mtime from `mtimes`.
RECURSIVE GenDir(_, _, _, _)
GenDir(prefix, names, budget, mtimes) ==
    IF names = {} \/ budget = 0 THEN {{}}
    ELSE LET n == CHOOSE x \in names : TRUE
             rest == names \ {n}
             p == Append(prefix, n)
             asFile == {{[path |-> p, kind |-> "file", mtime |-> m]} \cup t :
                           m \in mtimes, t \in GenDir(prefix, rest, budget - 1, mtimes)}
             asDir == UNION {
                 {{[path |-> p, kind |-> "dir", mtime |-> 0]} \cup s \cup t :
                     t \in GenDir(prefix, rest, budget - 1 - Cardinality(s), mtimes)} :
                 s \in GenDir(p, TreeNames, budget - 1, mtimes)}
         IN GenDir(prefix, rest, budget, mtimes) \cup asFile \cup asDir

\* ------------------------------------------------ collapse_sub_folders
Frame(path) == [path |-> path, at |-> "listdir", items |-> <<>>, sub_items |-> <<>>]

Top == stack[Len(stack)]

SetTop(f) == [stack EXCEPT ![Len(stack)] = f]

item_path(f) == Join(f.path, Head(f.items))

\* A collapse of one level only: the child is merged without being collapsed.
SkipCollapse(stk, child) ==
    [stk EXCEPT ![Len(stk)].at = "listsub"]

\* Line 35, the recursive call: the caller waits, a frame for the child starts.
CallCollapse(stk, child) ==
    Append([stk EXCEPT ![Len(stk)].at = "listsub"], Frame(child))

\* An except clause that clears away what is not yet merged.
AbortCleaning(tree) == {n \in tree : Len(n.path) = 1 /\ n.kind = "file"}

\* Lines 43-45: the except clause prints and re-raises; the tree stays as the
\* failed call left it.
AbortCollapse(tree) == tree

\* The top-level call collapse_sub_folders(FOLDER_PATH).
StartCollapse ==
    /\ stack' = <<Frame(<<>>)>>
    /\ cstate' = "running"
    /\ runs' = runs + 1

\* Line 31: items = os.listdir(path), in whatever order the platform gives.
ListDir ==
    /\ cstate = "running" /\ Top.at = "listdir"
    /\ \E order \in Perms(Entries(fs, Top.path)) :
           stack' = SetTop([Top EXCEPT !.at = "for_item", !.items = order])
    /\ UNCHANGED <<fs, fs0, cstate, runs, fsF>>
    /\ UNCHANGED mainVars

\* Line 31, loop exhausted: the call returns; the outermost return ends the collapse.
Return ==
    /\ cstate = "running" /\ Top.at = "for_item" /\ Top.items = <<>>
    /\ stack' = Front(stack)
    /\ cstate' = IF Len(stack) = 1 THEN "done" ELSE "running"
    /\ UNCHANGED <<fs, fs0, runs, fsF>>
    /\ UNCHANGED mainVars

\* Lines 32-35: the next item; a directory is collapsed first, anything else is skipped.
ForItem ==
    /\ cstate = "running" /\ Top.at = "for_item" /\ Top.items # <<>>
    /\ stack' = IF IsDir(fs, item_path(Top))
                THEN CallCollapse(stack, item_path(Top))
                ELSE SetTop([Top EXCEPT !.items = Tail(Top.items)])
    /\ UNCHANGED <<fs, fs0, cstate, runs, fsF>>
    /\ UNCHANGED mainVars

\* Line 37: sub_items = os.listdir(item_path), after the recursive call returned.
ListSub ==
    /\ cstate = "running" /\ Top.at = "listsub"
    /\ \E order \in Perms(Entries(fs, item_path(Top))) :
           stack' = SetTop([Top EXCEPT !.at = "for_sub", !.sub_items = order])
    /\ UNCHANGED <<fs, fs0, cstate, runs, fsF>>
    /\ UNCHANGED mainVars

\* Lines 38-40: shutil.move(sub_item_path, new_item_path); shutil.Error is an OSError,
\* so the except clause of every frame re-raises it.
MoveSub ==
    /\ cstate = "running" /\ Top.at = "for_sub" /\ Top.sub_items # <<>>
    /\ LET sub_item == Head(Top.sub_items)
           sub_item_path == Join(item_path(Top), sub_item)
           new_item_path == Join(Top.path, sub_item)
           moved == ShutilMove(fs, sub_item_path, new_item_path)
       IN IF moved.raised
          THEN /\ fs' = AbortCollapse(moved.tree)
               /\ fsF' = moved.tree
               /\ stack' = <<>>
               /\ cstate' = "failed"
          ELSE /\ fs' = moved.tree
               /\ fsF' = fsF
               /\ stack' = SetTop([Top EXCEPT !.sub_items = Tail(Top.sub_items)])
               /\ cstate' = cstate
    /\ UNCHANGED <<fs0, runs>>
    /\ UNCHANGED mainVars

\* Line 42: os.rmdir(item_path), once the inner loop is exhausted.
RemoveDir ==
    /\ cstate = "running" /\ Top.at = "for_sub" /\ Top.sub_items = <<>>
    /\ LET removed == RmDir(fs, item_path(Top))
       IN IF removed.raised
          THEN /\ fs' = AbortCollapse(removed.tree)
               /\ fsF' = removed.tree
               /\ stack' = <<>>
               /\ cstate' = "failed"
          ELSE /\ fs' = removed.tree
               /\ fsF' = fsF
               /\ stack' = SetTop([Top EXCEPT !.at = "for_item", !.items = Tail(Top.items)])
               /\ cstate' = cstate
    /\ UNCHANGED <<fs0, runs>>
    /\ UNCHANGED mainVars

\* Lines 43-45: the operating system refuses a listdir, a move or a rmdir
\* (permission denied, file in use, ...); nothing is rolled back.
RaiseOSError ==
    /\ cstate = "running"
    /\ Top.at \in {"listdir", "listsub", "for_sub"}
    /\ fs' = AbortCollapse(fs)
    /\ fsF' = fs
    /\ stack' = <<>>
    /\ cstate' = "failed"
    /\ UNCHANGED <<fs0, runs>>
    /\ UNCHANGED mainVars

\* collapse_sub_folders(FOLDER_PATH) is called a second time, after the first
\* call failed.
Rerun ==
    /\ cstate = "failed" /\ runs = 1
    /\ StartCollapse
    /\ UNCHANGED <<fs, fs0, fsF>>
    /\ UNCHANGED mainVars

CollapseStep == ListDir \/ Return \/ ForItem \/ ListSub \/ MoveSub \/ RemoveDir \/ RaiseOSError

\* ------------------------------------------------------------ dates
SecondsPerDay == 86400

\* datetime.utcfromtimestamp(t).date() and date.today(): the civil date
\* (year, month, day) of the day that holds second t of a time line.
CivilDate(t) ==
    LET z == (t \div SecondsPerDay) + 719468
        era == z \div 146097
        doe == z - era * 146097
        yoe == (doe - doe \div 1460 + doe \div 36524 - doe \div 146096) \div 365
        doy == doe - (365 * yoe + yoe \div 4 - yoe \div 100)
        mp == (5 * doy + 2) \div 153
        d == doy - (153 * mp + 2) \div 5 + 1
        m == IF mp < 10 THEN mp + 3 ELSE mp - 9
        y == yoe + era * 400 + (IF m <= 2 THEN 1 ELSE 0)
    IN <<y, m, d>>

\* Line 148-149: the UTC date of a timestamp.
UtcDate(t) == CivilDate(t)

\* Line 147, date.today(): the date of the local time line.
LocalDate(now, offset) == CivilDate(now + offset)

\* ------------------------------------------------------------ strings
EndsWith(s, suffix) ==
    Len(s) >= Len(suffix) /\ SubSeq(s, Len(s) - Len(suffix) + 1, Len(s)) = suffix

DigitChar(d) == <<"0", "1", "2", "3", "4", "5", "6", "7", "8", "9">>[d + 1]

Pad2(n) == <<DigitChar((n \div 10) % 10), DigitChar(n % 10)>>

Pad4(n) == Pad2(n \div 100) \o Pad2(n % 100)

\* Line 52: datetime.now().strftime("%Y-%m-%d_%H_%M_%S"), local time at
\* one-second resolution.
Strftime(now, offset) ==
    LET t == now + offset
        ymd == CivilDate(t)
        sod == t % SecondsPerDay
    IN Pad4(ymd[1]) \o <<"-">> \o Pad2(ymd[2]) \o <<"-">> \o Pad2(ymd[3]) \o <<"_">>
         \o Pad2(sod \div 3600) \o <<"_">> \o Pad2((sod % 3600) \div 60) \o <<"_">>
         \o Pad2(sod % 60)

\* The index of the last "/" of p, 0 when there is none (str.rfind + 1).
RECURSIVE LastSlash(_, _)
LastSlash(p, i) == IF i = 0 \/ p[i] = "/" THEN i ELSE LastSlash(p, i - 1)

RECURSIVE RStripSlash(_)
RStripSlash(p) == IF p # <<>> /\ p[Len(p)] = "/" THEN RStripSlash(Front(p)) ELSE p

AllSlashes(p) == \A i \in 1..Len(p) : p[i] = "/"

\* os.path.dirname (posixpath): everything up to the last "/", without the
\* trailing slashes unless it is the root.
Dirname(p) ==
    LET head == SubSeq(p, 1, LastSlash(p, Len(p)))
    IN IF head # <<>> /\ ~AllSlashes(head) THEN RStripSlash(head) ELSE head

\* os.path.join(a, b) (posixpath) of two strings.
PathJoin(a, b) ==
    IF b # <<>> /\ b[1] = "/" THEN b
    ELSE IF a = <<>> \/ a[Len(a)] = "/" THEN a \o b
    ELSE a \o <<"/">> \o b

\* str.replace("\\", "/")
ReplaceBackslash(p) == [i \in 1..Len(p) |-> IF p[i] = "\\" THEN "/" ELSE p[i]]

\* Lines 52-57: the output path of one conversion.
OutputFilePath(destination_path, now, offset) ==
    ReplaceBackslash(
        PathJoin(Dirname(destination_path), Strftime(now, offset) \o <<".", "m", "p", "3">>))

\* ------------------------------------------------------------ selector
PyNone == [kind |-> "None"]

PyStr(path) == [kind |-> "str", path |-> path]

PyList(paths) == [kind |-> "list", paths |-> paths]

Unset == [kind |-> "unset"]

\* os.path.getmtime
GetMTime(tree, p) == NodeAt(tree, p).mtime

\* The list comprehension [f for f in files if keep(f)], in order.
RECURSIVE Mp4Only(_)
Mp4Only(files) ==
    IF files = <<>> THEN <<>>
    ELSE IF EndsWith(Head(files), MP4) THEN <<Head(files)>> \o Mp4Only(Tail(files))
    ELSE Mp4Only(Tail(files))

\* A max that keeps the last of the largest.
RECURSIVE PyMaxLast(_, _, _)
PyMaxLast(tree, best, files) ==
    IF files = <<>> THEN best
    ELSE IF GetMTime(tree, <<Head(files)>>) >= GetMTime(tree, <<best>>)
         THEN PyMaxLast(tree, Head(files), Tail(files))
         ELSE PyMaxLast(tree, best, Tail(files))

\* max(files, key=getmtime), line 82: Python keeps the first of the largest.
RECURSIVE PyMax(_, _, _)
PyMax(tree, best, files) ==
    IF files = <<>> THEN best
    ELSE IF GetMTime(tree, <<Head(files)>>) > GetMTime(tree, <<best>>)
         THEN PyMax(tree, Head(files), Tail(files))
         ELSE PyMax(tree, best, Tail(files))

\* Lines 76-83, given what os.listdir returned.
GetMostRecentRecording(tree, files) ==
    LET mp4s == Mp4Only(files)
    IN IF mp4s = <<>> THEN PyNone
       ELSE PyStr(Join(<<>>, PyMax(tree, Head(mp4s), Tail(mp4s))))

\* Lines 145-151: True, or None when the function falls off its end.
FileWasCreatedToday(tree, mp4, now, offset) ==
    IF UtcDate(GetMTime(tree, mp4)) = LocalDate(now, offset) THEN "True" ELSE "None"

Truthy(v) == v = "True"

\* Lines 115-119, in listing order.
RECURSIVE TodayOnly(_, _, _, _)
TodayOnly(tree, files, now, offset) ==
    IF files = <<>> THEN <<>>
    ELSE IF EndsWith(Head(files), MP4)
            /\ Truthy(FileWasCreatedToday(tree, Join(<<>>, Head(files)), now, offset))
         THEN <<Join(<<>>, Head(files))>> \o TodayOnly(tree, Tail(files), now, offset)
         ELSE TodayOnly(tree, Tail(files), now, offset)

\* A selector that returns None instead of an empty list.
AllRecordingsOrNone(tree, files, now, offset) ==
    IF TodayOnly(tree, files, now, offset) = <<>> THEN [kind |-> "None", paths |-> <<>>]
    ELSE PyList(TodayOnly(tree, files, now, offset))

\* Lines 114-120, given what os.listdir returned.
GetAllRecordingsForToday(tree, files, now, offset) ==
    PyList(TodayOnly(tree, files, now, offset))

\* ---------------------------------------------------------------- main
MaxRejects == 2

MaxTick == 1

Inputs == {"1", "2", "3", ""}

\* A menu that takes any line.
AnyInput(s) == TRUE

\* Line 146: the menu loop ends on "1" or "2".
ValidInput(s) == s \in {"1", "2"}

\* Line 150: menu_logic
MenuLogic(s) ==
    IF s = "1" THEN "convert_most_recent_mp4"
    ELSE IF s = "2" THEN "convert_all_mp4s_for_today"
    ELSE "KeyError"

\* Lines 140-147: a line is read and, when it is no valid selection, rejected.
ReadInput ==
    /\ pc = "input"
    /\ \E s \in Inputs :
           /\ user_input' = s
           /\ IF ValidInput(s)
              THEN pc' = "collapse" /\ rejects' = rejects
              ELSE pc' = "input" /\ rejects < MaxRejects /\ rejects' = rejects + 1
    /\ UNCHANGED <<clock, tz, dest, listing, selection, todo, calls>>
    /\ UNCHANGED collapseVars

\* Line 149: collapse_sub_folders(FOLDER_PATH) is called.
CallCollapseRoot ==
    /\ pc = "collapse" /\ cstate = "idle"
    /\ StartCollapse
    /\ UNCHANGED <<fs, fs0, fsF>>
    /\ UNCHANGED mainVars

\* Line 149: the OSError of a failed collapse leaves main.
CollapseRaised ==
    /\ pc = "collapse" /\ cstate = "failed"
    /\ pc' = "aborted"
    /\ UNCHANGED <<user_input, rejects, clock, tz, dest, listing, selection, todo, calls>>
    /\ UNCHANGED collapseVars

\* A loop that starts at the second element.
BatchSkippingFirst(paths) == IF paths = <<>> THEN <<>> ELSE Tail(paths)

\* What the for loop of line 112 iterates over.
Batch(paths) == paths

\* Lines 151, 86-88: convert_most_recent_mp4 up to its call of the transcoder.
ConvertMostRecentMp4 ==
    /\ pc = "collapse" /\ cstate = "done"
    /\ MenuLogic(user_input) = "convert_most_recent_mp4"
    /\ \E files \in Perms(Entries(fs, <<>>)) :
           LET mp4 == GetMostRecentRecording(fs, files)
           IN /\ listing' = files
              /\ selection' = mp4
              /\ IF mp4 = PyNone
                 THEN pc' = "done" /\ todo' = <<>>
                 ELSE pc' = "convert" /\ todo' = <<mp4.path>>
    /\ UNCHANGED <<user_input, rejects, clock, tz, dest, calls>>
    /\ UNCHANGED collapseVars

\* Lines 151, 111-112: convert_all_mp4s_for_today up to its loop.
ConvertAllMp4sForToday ==
    /\ pc = "collapse" /\ cstate = "done"
    /\ MenuLogic(user_input) = "convert_all_mp4s_for_today"
    /\ \E files \in Perms(Entries(fs, <<>>)) :
           LET list_of_mp4s == GetAllRecordingsForToday(fs, files, clock, tz)
           IN /\ listing' = files
              /\ selection' = list_of_mp4s
              /\ todo' = Batch(list_of_mp4s.paths)
              /\ pc' = IF Batch(list_of_mp4s.paths) = <<>> THEN "done" ELSE "convert"
    /\ UNCHANGED <<user_input, rejects, clock, tz, dest, calls>>
    /\ UNCHANGED collapseVars

\* A loop that goes on after a failed conversion.
SwallowConvertError(rest) ==
    [pc |-> IF Tail(rest) = <<>> THEN "done" ELSE "convert", todo |-> Tail(rest)]

\* Lines 61-63: the error of a conversion is printed and re-raised; nothing
\* catches it, so it leaves the loop and main.
OnConvertError(rest) == [pc |-> "aborted", todo |-> rest]

\* Lines 47-65, 89, 113: one call of convert_mp4_to_mp3 that writes its file;
\* the call takes up to MaxTick seconds of wall-clock time.
ConvertOk ==
    /\ pc = "convert" /\ todo # <<>>
    /\ calls' = Append(calls, [src |-> Head(todo), ok |-> TRUE,
                               out |-> OutputFilePath(dest, clock, tz)])
    /\ todo' = Tail(todo)
    /\ pc' = IF Tail(todo) = <<>> THEN "done" ELSE "convert"
    /\ \E d \in 0..MaxTick : clock' = clock + d
    /\ UNCHANGED <<user_input, rejects, tz, dest, listing, selection>>
    /\ UNCHANGED collapseVars

\* Lines 50, 59-65: VideoFileClip or write_audiofile raises.
ConvertFail ==
    /\ pc = "convert" /\ todo # <<>>
    /\ calls' = Append(calls, [src |-> Head(todo), ok |-> FALSE,
                               out |-> OutputFilePath(dest, clock, tz)])
    /\ todo' = OnConvertError(todo).todo
    /\ pc' = OnConvertError(todo).pc
    /\ UNCHANGED <<user_input, rejects, clock, tz, dest, listing, selection>>
    /\ UNCHANGED collapseVars

\* ------------------------------------------------------ specifications
EpochDay == 19000

MaxDestLen == 3

Base == EpochDay * SecondsPerDay

\* Modification times: yesterday 23:00, today 01:00 and today 22:00 (UTC).
MTimes == {Base - 3600, Base + 3600, Base + 22 * 3600}

\* Call times: today 01:00:00 and today 23:59:59 (UTC).
Clocks == {Base + 3600, Base + SecondsPerDay - 1}

TzOffsets == {-7200, 0, 7200}

NameNoDot == <<"m", "p", "4">>

NameLonger == NameX \o <<"x">>

SelectNames == {NameX, NameY, NameNoDot, NameLonger}

DestChars == {"/", "\\", "d"}

Strings(chars, n) == UNION {[1..k -> chars] : k \in 1..n}

\* Every directory without subdirectories over `names`.
FlatDirs(names, mtimes) ==
    UNION {{{[path |-> <<n>>, kind |-> "file", mtime |-> f[n]] : n \in S} :
               f \in [S -> mtimes]} : S \in SUBSET names}

NameB == <<"B">>

NameZ == <<"z", ".", "t", "x", "t">>

\* The trees main is started on: every part of R = {A/x.mp4, A/B/y.mp4, z.txt}
\* that holds the directories of its entries, with every choice of file times.
ScenarioFiles == {<<NameA, NameX>>, <<NameA, NameB, NameY>>, <<NameZ>>}

ScenarioDirs == {<<NameA>>, <<NameA, NameB>>}

MainTrees ==
    UNION {{ {[path |-> p, kind |-> "file", mtime |-> f[p]] : p \in F}
                 \cup {[path |-> p, kind |-> "dir", mtime |-> 0] : p \in D} :
             D \in {E \in SUBSET ScenarioDirs :
                       /\ \A p \in E : Len(p) > 1 => Front(p) \in E
                       /\ \A p \in F : Len(p) > 1 => Front(p) \in E} } :
           F \in SUBSET ScenarioFiles, f \in [ScenarioFiles -> {Base - 3600, Base + 3600}]}

InitIdle ==
    /\ fs0 = fs
    /\ fsF = {}
    /\ listing = <<>>
    /\ selection = Unset
    /\ todo = <<>>
    /\ calls = <<>>
    /\ rejects = 0

\* main is started on some tree.
Init ==
    /\ fs \in MainTrees
    /\ clock \in Clocks
    /\ tz \in {0, 7200}
    /\ dest \in {<<"/", "d", "/">>, <<"/", "d">>}
    /\ InitIdle
    /\ stack = <<>>
    /\ cstate = "idle"
    /\ runs = 0
    /\ pc = "input"
    /\ user_input = ""

Next ==
    \/ ReadInput
    \/ CallCollapseRoot
    \/ CollapseStep
    \/ CollapseRaised
    \/ ConvertMostRecentMp4
    \/ ConvertAllMp4sForToday
    \/ ConvertOk
    \/ ConvertFail

Spec == Init /\ [][Next]_vars

\* collapse_sub_folders alone, called on some tree and called again when it failed.
InitCollapse ==
    /\ fs \in GenDir(<<>>, TreeNames, MaxNodes, {Base})
    /\ clock = Base
    /\ tz = 0
    /\ dest = <<"/">>
    /\ InitIdle
    /\ stack = <<Frame(<<>>)>>
    /\ cstate = "running"
    /\ runs = 1
    /\ pc = "collapse"
    /\ user_input = "1"

NextCollapse == CollapseStep \/ Rerun

SpecCollapse == InitCollapse /\ [][NextCollapse]_vars

\* The selectors alone, called on a collapsed directory.
InitSelect ==
    /\ fs \in FlatDirs(SelectNames, MTimes)
    /\ clock \in Clocks
    /\ tz \in TzOffsets
    /\ dest = <<"/">>
    /\ InitIdle
    /\ stack = <<>>
    /\ cstate = "done"
    /\ runs = 1
    /\ pc = "collapse"
    /\ user_input \in {"1", "2"}

NextSelect == ConvertMostRecentMp4 \/ ConvertAllMp4sForToday

SpecSelect == InitSelect /\ [][NextSelect]_vars

\* convert_mp4_to_mp3 alone, called with one recording and some DESTINATION_PATH.
InitConvert ==
    /\ fs = {[path |-> <<NameX>>, kind |-> "file", mtime |-> Base]}
    /\ clock \in Clocks
    /\ tz \in TzOffsets
    /\ dest \in Strings(DestChars, MaxDestLen)
    /\ fs0 = fs
    /\ fsF = {}
    /\ listing = <<NameX>>
    /\ selection = PyStr(<<NameX>>)
    /\ todo = <<<<NameX>>>>
    /\ calls = <<>>
    /\ rejects = 0
    /\ stack = <<>>
    /\ cstate = "done"
    /\ runs = 1
    /\ pc = "convert"
    /\ user_input = "1"

NextConvert == ConvertOk \/ ConvertFail

SpecConvert == InitConvert /\ [][NextConvert]_vars

\* ---------------------------------------------------------------- claims
Files(tree) == {n \in tree : n.kind = "file"}

\* No two files of the tree share a name: no two entries that end up in the
\* root collide.
NoCollision(tree) ==
    \A m, n \in Files(tree) : Last(m.path) = Last(n.path) => m = n

\* The root holds files only, all of them directly.
Flat(tree) == \A n \in tree : n.kind = "file" /\ Len(n.path) = 1

AllNames == {Last(n.path) : n \in fs0 \cup fs}

\* The multiset of the file names of a tree.
NameBag(tree) ==
    [nm \in AllNames |-> Cardinality({n \in Files(tree) : Last(n.path) = nm})]

\* C1: when the first collapse of a tree without name collisions returns
\* normally, the root holds no directory and the multiset of file names is
\* the one the tree had before the call, whatever the listing orders were.
C1_CollapseFlattens ==
    (cstate = "done" /\ runs = 1 /\ NoCollision(fs0))
        => Flat(fs) /\ NameBag(fs) = NameBag(fs0)

C1_Witness ==
    /\ cstate = "done" /\ runs = 1 /\ NoCollision(fs0)
    /\ Cardinality(Files(fs0)) >= 2
    /\ \E n \in Files(fs0) : Len(n.path) = 3

\* C9: when a collapse was aborted by an OSError and a later collapse of what
\* it left returns normally, then, the tree having no name collisions, the
\* root holds no directory and the multiset of file names is the one the tree
\* had before the first call.
C9_RerunConverges ==
    (cstate = "done" /\ runs >= 2 /\ NoCollision(fs0))
        => Flat(fs) /\ NameBag(fs) = NameBag(fs0)

C9_Witness ==
    /\ cstate = "done" /\ runs >= 2 /\ NoCollision(fs0)
    /\ fsF # fs0 /\ ~Flat(fsF)
    /\ Cardinality(Files(fs0)) >= 2

Mp4Entries == {i \in 1..Len(listing) : EndsWith(listing[i], MP4)}

ListedMTime(i) == GetMTime(fs, <<listing[i]>>)

\* C2: get_all_recordings_for_today returns exactly the '.mp4' entries whose
\* modification time falls on the current UTC date.
C2_TodayIsUtcToday ==
    (user_input = "2" /\ selection # Unset)
        => {selection.paths[i] : i \in 1..Len(selection.paths)}
             = {<<listing[i]>> : i \in {j \in Mp4Entries :
                                          UtcDate(ListedMTime(j)) = UtcDate(clock)}}

\* C3: with at least one '.mp4' entry, get_most_recent_recording returns the
\* '.mp4' entry of the largest modification time, the first of them in the
\* listing when several share it; other entries play no part.
C3_MostRecentFirstMax ==
    (user_input = "1" /\ selection # Unset /\ Mp4Entries # {})
        => /\ selection.kind = "str"
           /\ \E i \in Mp4Entries :
                  /\ selection.path = <<listing[i]>>
                  /\ \A j \in Mp4Entries :
                         /\ ListedMTime(j) <= ListedMTime(i)
                         /\ j < i => ListedMTime(j) < ListedMTime(i)

C3_Witness ==
    /\ user_input = "1" /\ selection.kind = "str"
    /\ \E i, j \in Mp4Entries :
           /\ i < j /\ ListedMTime(i) = ListedMTime(j)
           /\ selection.path = <<listing[i]>>
    /\ \E k \in 1..Len(listing) :
           k \notin Mp4Entries /\ ListedMTime(k) > GetMTime(fs, selection.path)

RECURSIVE Split(_)
Split(p) ==
    IF p = <<>> THEN <<>>
    ELSE LET i == LastSlash(p, Len(p))
             tail == SubSeq(p, i + 1, Len(p))
             head == SubSeq(p, 1, i - 1)
         IN IF i = 0 THEN <<p>>
            ELSE IF tail = <<>> THEN Split(head)
            ELSE Append(Split(head), tail)

\* The directory a path string names, and the directory that holds a file.
DirOf(p) == [abs |-> p # <<>> /\ p[1] = "/", parts |-> Split(p)]

ParentOf(p) == [abs |-> p # <<>> /\ p[1] = "/", parts |-> Front(Split(p))]

\* C4: every conversion writes its file directly inside DESTINATION_PATH,
\* with or without a trailing separator.  Stated for the paths that name the
\* same directory on every platform, those without a backslash.
C4_OutputInsideDestination ==
    (\A k \in 1..Len(dest) : dest[k] # "\\")
        => \A i \in 1..Len(calls) :
               calls[i].ok => ParentOf(calls[i].out) = DirOf(dest)

Selected ==
    IF selection.kind = "list" THEN selection.paths
    ELSE IF selection.kind = "str" THEN <<selection.path>>
    ELSE <<>>

\* C5: when main returns normally the transcoder has been called once for
\* each selected path, in the order of the selection, and for nothing else.
C5_OncePerSelected ==
    pc = "done"
        => /\ Len(calls) = Len(Selected)
           /\ \A i \in 1..Len(calls) : calls[i].src = Selected[i] /\ calls[i].ok
           /\ user_input = "1" => Len(calls) <= 1

C5_Witness ==
    /\ pc = "done" /\ user_input = "2"
    /\ Len(calls) = 2 /\ calls[1].src # calls[2].src

\* C7: the collapse starts only once a valid mode is read, runs once, and has
\* returned before the selector or the transcoder runs; after a failed
\* collapse neither runs.
C7_CollapseFirst ==
    /\ runs <= 1
    /\ cstate # "idle" => runs = 1 /\ user_input \in {"1", "2"}
    /\ (selection # Unset \/ listing # <<>> \/ calls # <<>>) => cstate = "done"
    /\ cstate = "failed" => selection = Unset /\ calls = <<>>

C7_Witness ==
    /\ rejects >= 1 /\ calls # <<>> /\ cstate = "done"
    /\ fs # fs0

\* C8: in all-today mode a failed conversion is the last one: the files before
\* it were each converted once, in order, and main is left by the error.
C8_FailureStopsBatch ==
    user_input = "2"
        => \A i \in 1..Len(calls) :
               /\ i <= Len(Selected) /\ calls[i].src = Selected[i]
               /\ ~calls[i].ok => i = Len(calls) /\ pc = "aborted"

C8_Witness ==
    /\ user_input = "2" /\ pc = "aborted"
    /\ calls # <<>> /\ ~calls[Len(calls)].ok
    /\ Len(Selected) > Len(calls)

\* C10: the conversions of one batch write to pairwise different paths.
C10_DistinctOutputs ==
    \A i, j \in 1..Len(calls) :
        (i < j /\ calls[i].ok /\ calls[j].ok) => calls[i].out # calls[j].out

====
